---- MODULE Spec2Model ----
(***************************************************************************)
(* Model of ScriptRipper.py: the chunked map-reduce transcript analysis    *)
(* (analyze_transcript), its helpers and the text splitter it configures.  *)
(* Texts are sequences of one-character strings.                           *)
(***************************************************************************)
EXTENDS Integers, Sequences, FiniteSets, TLC

VARIABLES
    pc,                   \* position of the run inside analyze_transcript
    transcript_content,   \* the document text handed to analyze_transcript
    chunk_size,           \* text_splitter chunk_size
    chunk_overlap,        \* text_splitter chunk_overlap
    chunks,               \* result of text_splitter.split_text
    transcript_name,      \* uploaded file name, as its dot-separated parts
    selected_tasks,       \* ordered list of {task_name, prompt} records
    master_prompt,        \* the synthesis template
    gsheet_client,        \* "None" or "client"
    clock,                \* datetime.now() in whole seconds
    run_output_dir,       \* <<base_filename, timestamp>>, <<>> before it is set
    total_tokens_used,
    i,                    \* 1-based position in selected_tasks
    j,                    \* 1-based position in chunks
    intermediate_results, \* map results of the current task
    final_response,       \* response of the last synthesis call
    generated_files,      \* artifact paths appended so far
    disk,                 \* artifact paths written to the file system, in order
    sheet,                \* rows of the activity-log sheet
    trace,                \* history of generation calls, emissions and log calls
    result,               \* what analyze_transcript returned
    sessions,             \* concurrent browser sessions, each running the script
    fs_writers,           \* <<artifact path, session>> for every write to Outputs
    session_state,        \* st.session_state of one browser session
    runs                  \* Run Analysis clicks handled so far in that session

splitter_vars == <<transcript_content, chunk_size, chunk_overlap, chunks>>
input_vars == <<transcript_name, selected_tasks, master_prompt, gsheet_client, clock>>
run_vars == <<run_output_dir, total_tokens_used, i, j, intermediate_results,
              final_response, generated_files, disk, sheet, trace, result>>
multi_vars == <<sessions, fs_writers>>
session_vars == <<session_state, runs>>
vars == <<pc, splitter_vars, input_vars, run_vars, multi_vars, session_vars>>

\* ------------------------------------------------------------------------
\* Bounds of the model
\* ------------------------------------------------------------------------
MaxLen == 4          \* longest text given to the splitter on its own
MaxChunkSize == 3    \* largest chunk_size tried for the splitter on its own
MaxTasks == 2        \* longest task list of a run
MaxClock == 1        \* seconds the clock may advance between concurrent runs

Chars == {"a", "b", " ", "\n"}

Min(S) == CHOOSE x \in S : \A y \in S : x <= y
Max(S) == CHOOSE x \in S : \A y \in S : x >= y

\* All texts of length 0..n over Chars
TextsUpTo(n) == UNION {[1..k -> Chars] : k \in 0..n}

\* ------------------------------------------------------------------------
\* RecursiveCharacterTextSplitter(chunk_size, chunk_overlap).split_text
\* (defaults: separators ["\n\n", "\n", " ", ""], keep_separator=True,
\*  strip_whitespace=True, length_function=len)
\* ------------------------------------------------------------------------
Separators == << <<"\n", "\n">>, <<"\n">>, <<" ">>, <<>> >>

\* str.isspace for the characters of the model
IsWhitespace(c) == c \in {" ", "\n"}

\* str.strip()
Strip(text) ==
    LET keep == {k \in 1..Len(text) : ~IsWhitespace(text[k])}
    IN  IF keep = {} THEN <<>> ELSE SubSeq(text, Min(keep), Max(keep))

\* re.search(re.escape(sep), text) for a non-empty literal sep
Occurrences(text, sep) ==
    {k \in 1..(Len(text) - Len(sep) + 1) : SubSeq(text, k, k + Len(sep) - 1) = sep}

Contains(text, sep) == Occurrences(text, sep) # {}

\* re.split(sep, text): the pieces between the non-overlapping matches
RECURSIVE RawSplit(_, _)
RawSplit(text, sep) ==
    IF ~Contains(text, sep) THEN <<text>>
    ELSE LET k == Min(Occurrences(text, sep))
         IN  <<SubSeq(text, 1, k - 1)>>
                 \o RawSplit(SubSeq(text, k + Len(sep), Len(text)), sep)

\* _split_text_with_regex(text, separator, keep_separator=True)
SplitTextWithRegex(text, sep) ==
    LET splits ==
            IF sep = <<>>
            THEN [k \in 1..Len(text) |-> <<text[k]>>]
            ELSE LET raw == RawSplit(text, sep)
                 IN  [k \in 1..Len(raw) |-> IF k = 1 THEN raw[1] ELSE sep \o raw[k]]
    IN  SelectSeq(splits, LAMBDA s : s # <<>>)

\* separator.join(docs)
RECURSIVE Join(_, _)
Join(docs, sep) ==
    IF docs = <<>> THEN <<>>
    ELSE IF Len(docs) = 1 THEN docs[1]
    ELSE docs[1] \o sep \o Join(Tail(docs), sep)

\* TextSplitter._join_docs: the joined and stripped text; <<>> stands for None
JoinDocs(docs, sep) == Strip(Join(docs, sep))

\* the while loop of _merge_splits that drops pieces from the front of
\* current_doc until what is kept fits the overlap and the next piece fits
RECURSIVE PopLoop(_, _, _, _, _, _)
PopLoop(current_doc, total, len, separator_len, S, O) ==
    IF \/ total > O
       \/ /\ total + len + (IF Len(current_doc) > 0 THEN separator_len ELSE 0) > S
          /\ total > 0
    THEN PopLoop(Tail(current_doc),
                 total - (Len(current_doc[1])
                          + (IF Len(current_doc) > 1 THEN separator_len ELSE 0)),
                 len, separator_len, S, O)
    ELSE [current_doc |-> current_doc, total |-> total]

\* one iteration of the for loop of _merge_splits
MergeStep(st, d, sep, S, O) ==
    LET separator_len == Len(sep)
        len == Len(d)
        overflow == st.total + len
                      + (IF Len(st.current_doc) > 0 THEN separator_len ELSE 0) > S
        flush == overflow /\ Len(st.current_doc) > 0
        doc == JoinDocs(st.current_doc, sep)
        docs1 == IF flush /\ doc # <<>> THEN Append(st.docs, doc) ELSE st.docs
        popped == IF flush
                  THEN PopLoop(st.current_doc, st.total, len, separator_len, S, O)
                  ELSE [current_doc |-> st.current_doc, total |-> st.total]
        cur2 == Append(popped.current_doc, d)
    IN  [docs |-> docs1,
         current_doc |-> cur2,
         total |-> popped.total + len + (IF Len(cur2) > 1 THEN separator_len ELSE 0)]

RECURSIVE MergeLoop(_, _, _, _, _)
MergeLoop(st, splits, sep, S, O) ==
    IF splits = <<>> THEN st
    ELSE MergeLoop(MergeStep(st, splits[1], sep, S, O), Tail(splits), sep, S, O)

\* variant: the pieces still in current_doc after the loop are not emitted
MergeSplits_DropTail(splits, sep, S, O) ==
    MergeLoop([docs |-> <<>>, current_doc |-> <<>>, total |-> 0],
              splits, sep, S, O).docs

\* TextSplitter._merge_splits(splits, separator)
MergeSplits(splits, sep, S, O) ==
    LET st == MergeLoop([docs |-> <<>>, current_doc |-> <<>>, total |-> 0],
                        splits, sep, S, O)
        doc == JoinDocs(st.current_doc, sep)
    IN  IF doc # <<>> THEN Append(st.docs, doc) ELSE st.docs

\* the separators of the list that _split_text may pick: "" or one that occurs
MatchingSeparators(text, separators) ==
    {k \in 1..Len(separators) :
        separators[k] = <<>> \/ Contains(text, separators[k])}

RECURSIVE SplitText(_, _, _, _)
RECURSIVE SplitLoop(_, _, _, _, _, _)

\* the for loop of _split_text over the pieces, with _good_splits/final_chunks
SplitLoop(splits, good, final, new_separators, S, O) ==
    IF splits = <<>>
    THEN IF good # <<>> THEN final \o MergeSplits(good, <<>>, S, O) ELSE final
    ELSE LET s == splits[1]
         IN  IF Len(s) < S
             THEN SplitLoop(Tail(splits), Append(good, s), final, new_separators, S, O)
             ELSE LET flushed == IF good # <<>>
                                 THEN final \o MergeSplits(good, <<>>, S, O)
                                 ELSE final
                      other == IF new_separators = <<>>
                               THEN <<s>>
                               ELSE SplitText(s, new_separators, S, O)
                  IN  SplitLoop(Tail(splits), <<>>, flushed \o other,
                                new_separators, S, O)

\* RecursiveCharacterTextSplitter._split_text(text, separators)
SplitText(text, separators, S, O) ==
    LET found == MatchingSeparators(text, separators)
        k == IF found = {} THEN Len(separators) ELSE Min(found)
        separator == separators[k]
        new_separators == IF found = {} \/ separator = <<>>
                          THEN <<>>
                          ELSE SubSeq(separators, k + 1, Len(separators))
    IN  SplitLoop(SplitTextWithRegex(text, separator), <<>>, <<>>,
                  new_separators, S, O)

\* text_splitter.split_text(transcript_content)
split_text(text, S, O) == SplitText(text, Separators, S, O)

\* ------------------------------------------------------------------------
\* Values of the pipeline
\* ------------------------------------------------------------------------
\* request_options and splitter configuration of analyze_transcript, scaled
\* to the texts of the model (the program uses 40000 and 2000)
ChunkSize == 3
ChunkOverlap == 1

\* Documents of a run: they split into 0, 1 and 2 chunks
Documents == { <<>>, <<"a", "b">>, <<"a", "a", " ", "b", "b">> }

TranscriptNames == { <<"hello", "txt">>, <<"notes", "v2", "txt">> }

\* tasks_for_profile: the tasks of the selected profile, in file order
ProfileTasks == << [task_name |-> <<"S", "u">>, prompt |-> "p1"],
                   [task_name |-> <<"Q", " ", "&">>, prompt |-> "p2"],
                   [task_name |-> <<"q", "-", "a", "n", "d">>, prompt |-> "p3"] >>

\* [task for task in tasks_for_profile if task['task_name'] in selected_task_names]
FilterTasks(profile, selected_task_names) ==
    SelectSeq(profile, LAMBDA task : task.task_name \in selected_task_names)

\* the task lists of a run: one per selection of at most MaxTasks task names
TaskLists ==
    {FilterTasks(ProfileTasks, names) :
        names \in {sel \in SUBSET {ProfileTasks[k].task_name : k \in DOMAIN ProfileTasks} :
                      Cardinality(sel) <= MaxTasks}}

\* response of model.generate_content: its text and its usage_metadata
\* (<<>> when the response carries no usage data, <<n>> for total_token_count n)
Responses == { [text |-> <<"x">>, usage |-> <<>>],
               [text |-> <<"y">>, usage |-> <<2>>] }

NoResponse == [text |-> <<>>, usage |-> <<>>]

NotReturned == [returned |-> FALSE, success |-> FALSE, total_tokens |-> 0,
                files |-> <<>>, run_output_dir |-> <<>>]

selected_profile == "profile"

\* browser sessions served by the one process; each runs the script on its own
Sessions == {1, 2}
IdleSession == [pc |-> "idle", transcript_name |-> <<>>, tasks |-> <<>>,
                run_output_dir |-> <<>>, i |-> 0]

\* pathlib.Path(transcript_name).stem: the name without its last suffix
Stem(name) == IF Len(name) > 1 THEN SubSeq(name, 1, Len(name) - 1) ELSE name

\* str.lower() on the letters of the model
LowerChar(c) == CASE c = "S" -> "s" [] c = "Q" -> "q" [] OTHER -> c
Lower(text) == [k \in 1..Len(text) |-> LowerChar(text[k])]

\* str.replace(old, new) for a one-character old
RECURSIVE Replace(_, _, _)
Replace(text, old, new) ==
    IF text = <<>> THEN <<>>
    ELSE (IF text[1] = old THEN new ELSE <<text[1]>>) \o Replace(Tail(text), old, new)

\* task_name.lower().replace(' ', '-').replace('&', 'and').replace('/', '')
Slug(task_name) ==
    Replace(Replace(Replace(Lower(task_name), " ", <<"-">>),
                    "&", <<"a", "n", "d">>),
            "/", <<>>)

\* f"{base_filename}_output_{slug}"
OutputBaseName(base_filename, task_name) ==
    [stem |-> base_filename, slug |-> Slug(task_name)]

\* md_dir / f"{output_base_name}.md" and its text and pdf siblings
ArtifactPath(dir, sub, output_base_name, ext) ==
    [dir |-> dir, sub |-> sub, base |-> output_base_name, ext |-> ext]

\* the chunk prompt and the synthesis prompt, as their variable parts
ChunkPrompt(original_prompt, chunk) ==
    [framing |-> "chunk", request |-> original_prompt, body |-> chunk]

SynthesisPrompt(master, original_prompt, results) ==
    [framing |-> master, request |-> original_prompt, body |-> Join(results, <<>>)]

\* variant: the result is put in front of the list
AppendResult_Prepend(results, text) == <<text>> \o results

\* intermediate_results.append(response.text)
AppendResult(results, text) == Append(results, text)

\* variant: the reported count replaces the running total
AddTokens_Overwrite(total, usage) == IF usage # <<>> THEN usage[1] ELSE total

\* if response.usage_metadata: total_tokens_used += ...total_token_count
AddTokens(total, usage) == IF usage # <<>> THEN total + usage[1] ELSE total

\* variant: the files emitted before the exception are returned
ExceptReturn_Partial(tokens, files) ==
    [returned |-> TRUE, success |-> FALSE, total_tokens |-> 0,
     files |-> files, run_output_dir |-> <<>>]

\* the except branch of analyze_transcript: return False, 0, [], None
ExceptReturn(tokens, files) ==
    [returned |-> TRUE, success |-> FALSE, total_tokens |-> 0,
     files |-> <<>>, run_output_dir |-> <<>>]

\* return True, total_tokens_used, generated_files, run_output_dir
SuccessReturn(tokens, files, dir) ==
    [returned |-> TRUE, success |-> TRUE, total_tokens |-> tokens,
     files |-> files, run_output_dir |-> dir]

\* variant: the rendering exception is not caught
convert_md_to_pdf_Uncaught(render_ok) == IF render_ok THEN "True" ELSE "raise"

\* convert_md_to_pdf: "True"/"False"; it catches every rendering exception
convert_md_to_pdf(render_ok) == IF render_ok THEN "True" ELSE "False"

\* variants: the markdown path is put in front; the text path is not recorded
SaveMarkdown_Prepend(files, md_path) == <<md_path>> \o files
SaveText_Skip(files, txt_path) == files

\* generated_files.append(md_path) / (txt_path) / (pdf_path) if converted
SaveMarkdown(files, md_path) == Append(files, md_path)
SaveText(files, txt_path) == Append(files, txt_path)
SavePdf(files, pdf_path, converted) ==
    IF converted = "True" THEN Append(files, pdf_path) ELSE files

\* variant: the record is built with the counter's initial value
LogData_ZeroTokens(timestamp, name, profile, tasks, total) ==
    [timestamp |-> timestamp, transcript_name |-> name, profile |-> profile,
     task_names |-> [k \in 1..Len(tasks) |-> tasks[k].task_name],
     total_tokens |-> 0]

\* log_data = [timestamp, transcript_name, selected_profile, task_names_str,
\*             total_tokens_used]
LogData(timestamp, name, profile, tasks, total) ==
    [timestamp |-> timestamp, transcript_name |-> name, profile |-> profile,
     task_names |-> [k \in 1..Len(tasks) |-> tasks[k].task_name],
     total_tokens |-> total]

\* variant: an exception of the sheet client is not caught
log_activity_to_sheet_Uncaught(client, opened, appended) ==
    IF client = "None" THEN "returned"
    ELSE IF ~opened \/ ~appended THEN "raise"
    ELSE "returned"

\* log_activity_to_sheet(client, log_data): the rows it leaves in the sheet.
\* opened/appended say whether client.open and sheet.append_row succeed;
\* every exception is caught inside, so the outcome is "returned" always.
log_activity_to_sheet(client, opened, appended) ==
    IF client = "None" THEN "returned"
    ELSE IF ~opened THEN "returned"
    ELSE IF ~appended THEN "returned"
    ELSE "returned"

SheetAfterLog(rows, client, log_data, opened, appended) ==
    IF client = "None" \/ ~opened \/ ~appended THEN rows
    ELSE (IF rows = <<>> THEN <<"header">> ELSE <<>>) \o rows \o <<log_data>>

\* if 'analysis_complete' not in st.session_state: the four initial values
InitialSessionState ==
    [analysis_complete |-> FALSE, generated_files |-> <<>>,
     run_output_dir |-> <<>>, total_tokens |-> 0]

\* variant: the button handler leaves the flag of the earlier run in place
ClearOnRun_Keep(state) == state

\* st.session_state.analysis_complete = False, first statement of the handler
ClearOnRun(state) == [state EXCEPT !.analysis_complete = FALSE]

\* if success: the flag and the three returned values are stored
StoreResult(state, returned) ==
    IF returned.success
    THEN [analysis_complete |-> TRUE, generated_files |-> returned.files,
          run_output_dir |-> returned.run_output_dir,
          total_tokens |-> returned.total_tokens]
    ELSE state

\* if st.session_state.analysis_complete: the files the download section offers
Offered(state) == IF state.analysis_complete THEN state.generated_files ELSE <<>>

\* ------------------------------------------------------------------------
\* analyze_transcript, one action per call the environment answers
\* ------------------------------------------------------------------------
Init ==
    /\ pc = "start"
    /\ transcript_content \in Documents
    /\ chunk_size = ChunkSize
    /\ chunk_overlap = ChunkOverlap
    /\ chunks = <<>>
    /\ transcript_name \in TranscriptNames
    /\ selected_tasks \in TaskLists
    /\ master_prompt = "master"
    /\ gsheet_client \in {"None", "client"}
    /\ clock = 0
    /\ run_output_dir = <<>>
    /\ total_tokens_used = 0
    /\ i = 0
    /\ j = 0
    /\ intermediate_results = <<>>
    /\ final_response = NoResponse
    /\ generated_files = <<>>
    /\ disk = <<>>
    /\ sheet = <<>>
    /\ trace = <<>>
    /\ result = NotReturned
    /\ sessions = [s \in Sessions |-> IdleSession]
    /\ fs_writers = {}
    /\ session_state = InitialSessionState
    /\ runs = 0

\* variant: intermediate_results is created once, before the task loop
EnterTask_KeepResults(k, nchunks) ==
    IF k > Len(selected_tasks)
    THEN /\ pc' = "log"
         /\ UNCHANGED <<i, j, intermediate_results>>
    ELSE /\ i' = k
         /\ UNCHANGED intermediate_results
         /\ j' = 1
         /\ pc' = IF nchunks > 0 THEN "map" ELSE "synth"

\* for i, task in enumerate(selected_tasks): the state at the top of
\* iteration k, or after the loop when the list is exhausted
EnterTask(k, nchunks) ==
    IF k > Len(selected_tasks)
    THEN /\ pc' = "log"
         /\ UNCHANGED <<i, j, intermediate_results>>
    ELSE /\ i' = k
         /\ intermediate_results' = <<>>
         /\ j' = 1
         /\ pc' = IF nchunks > 0 THEN "map" ELSE "synth"

\* variant: the failure is reported but the failing step is tried again
Raise_Retry ==
    /\ result' = ExceptReturn(total_tokens_used, generated_files)
    /\ pc' = pc

\* the exception handler: report and return the failure tuple
Raise ==
    /\ result' = ExceptReturn(total_tokens_used, generated_files)
    /\ pc' = "done"

\* lines 139-165: output folders, model, splitter, chunks, counters
StartRun ==
    /\ pc = "start"
    /\ \E mkdir_ok \in BOOLEAN :
        /\ run_output_dir' = <<Stem(transcript_name), clock>>
        /\ trace' = Append(trace, [kind |-> "start", task |-> 0, ok |-> mkdir_ok])
        /\ IF ~mkdir_ok
           THEN /\ Raise
                /\ UNCHANGED <<chunks, total_tokens_used, i, j, intermediate_results>>
           ELSE /\ chunks' = split_text(transcript_content, chunk_size, chunk_overlap)
                /\ total_tokens_used' = 0
                /\ EnterTask(1, Len(chunks'))
                /\ UNCHANGED result
    /\ UNCHANGED <<transcript_content, chunk_size, chunk_overlap, input_vars,
                   multi_vars, session_vars, final_response, generated_files, disk, sheet>>

\* variant: the chunk loop does not move on to the next chunk
AdvanceChunk_Stuck(jj, nchunks) ==
    /\ j' = jj
    /\ pc' = "map"

\* for j, chunk in enumerate(chunks): the next chunk, or the synthesis step
\* once the last chunk is done
AdvanceChunk(jj, nchunks) ==
    IF jj < nchunks
    THEN j' = jj + 1 /\ pc' = "map"
    ELSE j' = jj /\ pc' = "synth"

\* lines 176-183: one map call
MapCall ==
    /\ pc = "map"
    /\ LET task == selected_tasks[i]
           prompt == ChunkPrompt(task.prompt, chunks[j])
       IN  \/ /\ trace' = Append(trace, [kind |-> "map", task |-> i, chunk |-> j,
                                         prompt |-> prompt, ok |-> FALSE,
                                         response |-> NoResponse])
              /\ Raise
              /\ UNCHANGED <<total_tokens_used, i, j, intermediate_results>>
           \/ \E response \in Responses :
              /\ trace' = Append(trace, [kind |-> "map", task |-> i, chunk |-> j,
                                         prompt |-> prompt, ok |-> TRUE,
                                         response |-> response])
              /\ intermediate_results' = AppendResult(intermediate_results, response.text)
              /\ total_tokens_used' = AddTokens(total_tokens_used, response.usage)
              /\ AdvanceChunk(j, Len(chunks))
              /\ UNCHANGED <<i, result>>
    /\ UNCHANGED <<splitter_vars, input_vars, multi_vars, session_vars, run_output_dir, final_response,
                   generated_files, disk, sheet>>

\* lines 185-190: the synthesis call
SynthCall ==
    /\ pc = "synth"
    /\ LET task == selected_tasks[i]
           prompt == SynthesisPrompt(master_prompt, task.prompt, intermediate_results)
       IN  \/ /\ trace' = Append(trace, [kind |-> "synth", task |-> i, chunk |-> 0,
                                         prompt |-> prompt, ok |-> FALSE,
                                         response |-> NoResponse])
              /\ Raise
              /\ UNCHANGED <<total_tokens_used, final_response>>
           \/ \E response \in Responses :
              /\ trace' = Append(trace, [kind |-> "synth", task |-> i, chunk |-> 0,
                                         prompt |-> prompt, ok |-> TRUE,
                                         response |-> response])
              /\ final_response' = response
              /\ total_tokens_used' = AddTokens(total_tokens_used, response.usage)
              /\ pc' = "emit"
              /\ UNCHANGED result
    /\ UNCHANGED <<splitter_vars, input_vars, multi_vars, session_vars, run_output_dir, i, j,
                   intermediate_results, generated_files, disk, sheet>>

\* lines 192-215: the three artifacts of the task, then the next task
Emit ==
    /\ pc = "emit"
    /\ \E md_ok \in BOOLEAN, txt_ok \in BOOLEAN, render_ok \in BOOLEAN :
       LET task == selected_tasks[i]
           output_base_name == OutputBaseName(Stem(transcript_name), task.task_name)
           md_path == ArtifactPath(run_output_dir, "markdown", output_base_name, "md")
           txt_path == ArtifactPath(run_output_dir, "text", output_base_name, "txt")
           pdf_path == ArtifactPath(run_output_dir, "pdf", output_base_name, "pdf")
           converted == convert_md_to_pdf(render_ok)
           files1 == SaveMarkdown(generated_files, md_path)
           files2 == SaveText(files1, txt_path)
           files3 == SavePdf(files2, pdf_path, converted)
           event == [kind |-> "emit", task |-> i, md_ok |-> md_ok,
                     txt_ok |-> md_ok /\ txt_ok,
                     render_ok |-> md_ok /\ txt_ok /\ render_ok]
       IN  /\ trace' = Append(trace, event)
           /\ IF ~md_ok
              THEN /\ Raise
                   /\ UNCHANGED <<generated_files, disk, i, j, intermediate_results>>
              ELSE IF ~txt_ok
              THEN /\ disk' = disk \o <<md_path>>
                   /\ generated_files' = files1
                   /\ Raise
                   /\ UNCHANGED <<i, j, intermediate_results>>
              ELSE IF converted = "raise"
              THEN /\ disk' = disk \o <<md_path, txt_path>>
                   /\ generated_files' = files2
                   /\ Raise
                   /\ UNCHANGED <<i, j, intermediate_results>>
              ELSE /\ disk' = disk \o (IF render_ok THEN <<md_path, txt_path, pdf_path>>
                                                    ELSE <<md_path, txt_path>>)
                   /\ generated_files' = files3
                   /\ EnterTask(i + 1, Len(chunks))
                   /\ UNCHANGED result
    /\ UNCHANGED <<splitter_vars, input_vars, multi_vars, session_vars, run_output_dir, total_tokens_used,
                   final_response, sheet>>

\* lines 217-221: the activity log, then the success tuple
LogAndReturn ==
    /\ pc = "log"
    /\ \E opened \in BOOLEAN, appended \in BOOLEAN :
       LET log_data == LogData(run_output_dir[2], transcript_name, selected_profile,
                               selected_tasks, total_tokens_used)
           outcome == log_activity_to_sheet(gsheet_client, opened, appended)
       IN  /\ trace' = Append(trace, [kind |-> "log", task |-> 0,
                                      client |-> gsheet_client,
                                      opened |-> opened, appended |-> appended])
           /\ sheet' = SheetAfterLog(sheet, gsheet_client, log_data, opened, appended)
           /\ IF outcome = "raise"
              THEN Raise
              ELSE /\ result' = SuccessReturn(total_tokens_used, generated_files,
                                              run_output_dir)
                   /\ pc' = "done"
    /\ UNCHANGED <<splitter_vars, input_vars, multi_vars, session_vars, run_output_dir, total_tokens_used,
                   i, j, intermediate_results, final_response, generated_files, disk>>

Next == StartRun \/ MapCall \/ SynthCall \/ Emit \/ LogAndReturn

Spec == Init /\ [][Next]_vars

\* every generation call returns or raises within request_options' timeout,
\* and every other step is straight-line code: a step that can be taken is taken
SpecLive == Spec /\ WF_vars(Next)

\* ------------------------------------------------------------------------
\* Several sessions of the one process, each pressing Run Analysis: the
\* output-folder naming (lines 146-155) and the artifact writes (196-213)
\* ------------------------------------------------------------------------
InitRuns ==
    /\ pc = "sessions"
    /\ transcript_content = <<>>
    /\ chunk_size = ChunkSize
    /\ chunk_overlap = ChunkOverlap
    /\ chunks = <<>>
    /\ transcript_name = <<"hello", "txt">>
    /\ selected_tasks = <<>>
    /\ master_prompt = "master"
    /\ gsheet_client = "None"
    /\ clock = 0
    /\ run_output_dir = <<>>
    /\ total_tokens_used = 0
    /\ i = 0
    /\ j = 0
    /\ intermediate_results = <<>>
    /\ final_response = NoResponse
    /\ generated_files = <<>>
    /\ disk = <<>>
    /\ sheet = <<>>
    /\ trace = <<>>
    /\ result = NotReturned
    /\ sessions = [s \in Sessions |-> IdleSession]
    /\ fs_writers = {}
    /\ session_state = InitialSessionState
    /\ runs = 0

\* a second of wall-clock time passes
Tick ==
    /\ pc = "sessions"
    /\ clock < MaxClock
    /\ clock' = clock + 1
    /\ UNCHANGED <<pc, splitter_vars, transcript_name, selected_tasks, master_prompt,
                   gsheet_client, run_vars, multi_vars, session_vars>>

\* lines 146-155 in session s: timestamp, base_filename, run_output_dir and
\* mkdir(parents=True, exist_ok=True), which accepts an existing folder
SessionStart(s) ==
    /\ pc = "sessions"
    /\ sessions[s].pc = "idle"
    /\ \E name \in TranscriptNames, tasks \in TaskLists :
         sessions' = [sessions EXCEPT ![s] =
                        [pc |-> IF tasks = <<>> THEN "done" ELSE "running",
                         transcript_name |-> name,
                         tasks |-> tasks,
                         run_output_dir |-> <<Stem(name), clock>>,
                         i |-> 1]]
    /\ UNCHANGED <<pc, splitter_vars, input_vars, run_vars, fs_writers, session_vars>>

\* lines 192-215 in session s: open(path, 'w') of the artifacts of its task i
SessionEmit(s) ==
    /\ pc = "sessions"
    /\ sessions[s].pc = "running"
    /\ \E render_ok \in BOOLEAN :
       LET me == sessions[s]
           output_base_name == OutputBaseName(Stem(me.transcript_name),
                                              me.tasks[me.i].task_name)
           md_path == ArtifactPath(me.run_output_dir, "markdown", output_base_name, "md")
           txt_path == ArtifactPath(me.run_output_dir, "text", output_base_name, "txt")
           pdf_path == ArtifactPath(me.run_output_dir, "pdf", output_base_name, "pdf")
           written == {md_path, txt_path}
                        \cup (IF convert_md_to_pdf(render_ok) = "True"
                              THEN {pdf_path} ELSE {})
       IN  /\ fs_writers' = fs_writers \cup {<<path, s>> : path \in written}
           /\ sessions' = [sessions EXCEPT ![s].i = me.i + 1,
                                           ![s].pc = IF me.i < Len(me.tasks)
                                                     THEN "running" ELSE "done"]
    /\ UNCHANGED <<pc, splitter_vars, input_vars, run_vars, session_vars>>

NextRuns == Tick \/ (\E s \in Sessions : SessionStart(s) \/ SessionEmit(s))

SpecRuns == InitRuns /\ [][NextRuns]_vars

\* ------------------------------------------------------------------------
\* The splitter on its own: inputs drawn from bounded sets, one action
\* ------------------------------------------------------------------------
InitChunk ==
    /\ pc = "split_start"
    /\ transcript_content \in TextsUpTo(MaxLen)
    /\ chunk_size \in 1..MaxChunkSize
    /\ chunk_overlap \in 0..(chunk_size - 1)
    /\ chunks = <<>>
    /\ transcript_name = <<"hello", "txt">>
    /\ selected_tasks = <<>>
    /\ master_prompt = "master"
    /\ gsheet_client = "None"
    /\ clock = 0
    /\ run_output_dir = <<>>
    /\ total_tokens_used = 0
    /\ i = 0
    /\ j = 0
    /\ intermediate_results = <<>>
    /\ final_response = NoResponse
    /\ generated_files = <<>>
    /\ disk = <<>>
    /\ sheet = <<>>
    /\ trace = <<>>
    /\ result = NotReturned
    /\ sessions = [s \in Sessions |-> IdleSession]
    /\ fs_writers = {}
    /\ session_state = InitialSessionState
    /\ runs = 0

ChunkerSplit ==
    /\ pc = "split_start"
    /\ chunks' = split_text(transcript_content, chunk_size, chunk_overlap)
    /\ pc' = "split_done"
    /\ UNCHANGED <<transcript_content, chunk_size, chunk_overlap, input_vars, run_vars, multi_vars, session_vars>>

NextChunk == ChunkerSplit

SpecChunk == InitChunk /\ [][NextChunk]_vars

\* ------------------------------------------------------------------------
\* One browser session: Run Analysis clicked repeatedly, each click running
\* analyze_transcript to its return and then the rest of the handler
\* ------------------------------------------------------------------------
MaxRuns == 2

\* what the widgets can hold when the button is clicked
UploadedDocuments == { <<"a", "b">>, <<"a", "a", " ", "b", "b">> }
UploadedNames == { <<"hello", "txt">> }
TasksToRun ==
    { FilterTasks(ProfileTasks, {}), FilterTasks(ProfileTasks, {ProfileTasks[1].task_name}) }

InitSession ==
    /\ pc = "idle"
    /\ transcript_content = <<>>
    /\ chunk_size = ChunkSize
    /\ chunk_overlap = ChunkOverlap
    /\ chunks = <<>>
    /\ transcript_name = <<>>
    /\ selected_tasks = <<>>
    /\ master_prompt = "master"
    /\ gsheet_client \in {"None", "client"}
    /\ clock = 0
    /\ run_output_dir = <<>>
    /\ total_tokens_used = 0
    /\ i = 0
    /\ j = 0
    /\ intermediate_results = <<>>
    /\ final_response = NoResponse
    /\ generated_files = <<>>
    /\ disk = <<>>
    /\ sheet = <<>>
    /\ trace = <<>>
    /\ result = NotReturned
    /\ sessions = [s \in Sessions |-> IdleSession]
    /\ fs_writers = {}
    /\ session_state = InitialSessionState
    /\ runs = 0

\* lines 257-264: the button is clicked; the flag is cleared, the inputs are
\* read from the widgets and analyze_transcript is entered
ClickRun ==
    /\ pc = "idle"
    /\ runs < MaxRuns
    /\ runs' = runs + 1
    /\ session_state' = ClearOnRun(session_state)
    /\ transcript_content' \in UploadedDocuments
    /\ transcript_name' \in UploadedNames
    /\ selected_tasks' \in TasksToRun
    /\ clock' \in clock..MaxClock
    /\ chunks' = <<>>
    /\ run_output_dir' = <<>>
    /\ total_tokens_used' = 0
    /\ i' = 0
    /\ j' = 0
    /\ intermediate_results' = <<>>
    /\ final_response' = NoResponse
    /\ generated_files' = <<>>
    /\ trace' = <<>>
    /\ result' = NotReturned
    /\ pc' = "start"
    /\ UNCHANGED <<chunk_size, chunk_overlap, master_prompt, gsheet_client, disk, sheet,
                   multi_vars>>

\* lines 264-273: analyze_transcript has returned; the values are stored on
\* success and the script run ends
HandlerReturn ==
    /\ pc = "done"
    /\ session_state' = StoreResult(session_state, result)
    /\ pc' = "idle"
    /\ UNCHANGED <<splitter_vars, input_vars, run_vars, multi_vars, runs>>

NextSession ==
    ClickRun \/ StartRun \/ MapCall \/ SynthCall \/ Emit \/ LogAndReturn \/ HandlerReturn

SpecSession == InitSession /\ [][NextSession]_vars

\* ========================================================================
\* Properties
\* ========================================================================
IsCall(e) == e.kind \in {"map", "synth"}

\* the generation calls issued for task t, in the order they were issued
CallsOf(t) == SelectSeq(trace, LAMBDA e : IsCall(e) /\ e.task = t)

GenCalls == SelectSeq(trace, IsCall)

EmitEvents == SelectSeq(trace, LAMBDA e : e.kind = "emit")

FailedCallExists == \E k \in DOMAIN trace : IsCall(trace[k]) /\ ~trace[k].ok

\* tokens reported by the calls of a sequence of events; no usage data counts 0
RECURSIVE SumUsage(_)
SumUsage(events) ==
    IF events = <<>> THEN 0
    ELSE (IF IsCall(events[1]) /\ events[1].ok /\ events[1].response.usage # <<>>
          THEN events[1].response.usage[1] ELSE 0)
         + SumUsage(Tail(events))

\* the texts returned by the first n calls of a sequence, concatenated
RECURSIVE ConcatTexts(_, _)
ConcatTexts(calls, n) ==
    IF n = 0 THEN <<>> ELSE ConcatTexts(calls, n - 1) \o calls[n].response.text

\* the artifact paths of task t in the run's output folder
BaseOf(t) == [stem |-> Stem(transcript_name), slug |-> Slug(selected_tasks[t].task_name)]
PathIn(base, sub, ext) == [dir |-> run_output_dir, sub |-> sub, base |-> base, ext |-> ext]
MdOf(t) == PathIn(BaseOf(t), "markdown", "md")
TxtOf(t) == PathIn(BaseOf(t), "text", "txt")
PdfOf(t) == PathIn(BaseOf(t), "pdf", "pdf")

Range(f) == {f[k] : k \in DOMAIN f}

\* the run met no failure other than PDF rendering failures
OnlyRenderFailures ==
    \A k \in DOMAIN trace :
        /\ trace[k].kind \in {"start", "map", "synth"} => trace[k].ok
        /\ trace[k].kind = "emit" => trace[k].md_ok /\ trace[k].txt_ok

\* the manifest of a run all of whose tasks were emitted: per task, in task
\* order, markdown, text and the PDF exactly when its own rendering succeeded
RECURSIVE ManifestFrom(_, _)
ManifestFrom(emits, t) ==
    IF t > Len(selected_tasks) THEN <<>>
    ELSE LET base == BaseOf(t)
         IN  <<PathIn(base, "markdown", "md"), PathIn(base, "text", "txt")>>
               \o (IF emits[t].render_ok THEN <<PathIn(base, "pdf", "pdf")>> ELSE <<>>)
               \o ManifestFrom(emits, t + 1)

\* C1: every task the run carries through gets exactly N+1 generation calls,
\* N = Len(chunks) for every task: map calls for chunks 1..N in chunk order,
\* then one synthesis call whose raw-results segment is the concatenation of
\* the N map results in chunk order; no task ever gets more than N+1 calls.
C1_CallsPerTask ==
    \A t \in 1..Len(selected_tasks) :
        LET calls == CallsOf(t)
            N == Len(chunks)
        IN  /\ Len(calls) <= N + 1
            /\ \A k \in 1..Len(calls) :
                 IF k <= N
                 THEN /\ calls[k].kind = "map"
                      /\ calls[k].chunk = k
                      /\ calls[k].prompt.body = chunks[k]
                 ELSE /\ calls[k].kind = "synth"
                      /\ calls[k].prompt.body = ConcatTexts(calls, N)
            /\ (result.success \/ t < i \/ (t = i /\ pc \in {"emit", "log"}))
                  => Len(calls) = N + 1

C1_Witness ==
    /\ result.success
    /\ Len(selected_tasks) = 2
    /\ Len(chunks) = 2
    /\ LET calls == CallsOf(2)
       IN  /\ Len(calls) = 3
           /\ calls[1].response.text = <<"x">>
           /\ calls[2].response.text = <<"y">>
           /\ calls[3].prompt.body = <<"x", "y">>

\* C2: when a generation call fails the run ends at once and the caller gets
\* the failure tuple with an empty artifact list, whatever was emitted before.
C2_FailureAbortsRun ==
    FailedCallExists =>
        /\ pc = "done"
        /\ ~trace[Len(trace)].ok
        /\ result.returned
        /\ ~result.success
        /\ result.files = <<>>
        /\ result.run_output_dir = <<>>

C2_Witness ==
    /\ FailedCallExists
    /\ result.returned
    /\ trace[Len(trace)].task = 2
    /\ Len(disk) >= 2
    /\ Len(generated_files) >= 2

\* C3: a PDF rendering failure never aborts the run: the task's markdown and
\* text paths are recorded all the same, and a run that meets no other failure
\* returns success with, per task, markdown, text and the PDF exactly when
\* that task's own rendering succeeded.
C3_PdfFailureDoesNotAbort ==
    /\ \A k \in DOMAIN trace :
         (trace[k].kind = "emit" /\ trace[k].txt_ok /\ ~trace[k].render_ok) =>
            /\ LET base == BaseOf(trace[k].task)
                   md == PathIn(base, "markdown", "md")
                   txt == PathIn(base, "text", "txt")
               IN  \E n \in 1..(Len(generated_files) - 1) :
                      generated_files[n] = md /\ generated_files[n + 1] = txt
            /\ (k = Len(trace) => ~result.returned /\ pc \in {"map", "synth", "log"})
    /\ (result.returned /\ OnlyRenderFailures) =>
            LET emits == EmitEvents
            IN  /\ result.success
                /\ Len(emits) = Len(selected_tasks)
                /\ result.files = ManifestFrom(emits, 1)

C3_Witness ==
    /\ result.success
    /\ Len(selected_tasks) = 2
    /\ selected_tasks[1] # selected_tasks[2]
    /\ ~EmitEvents[1].render_ok
    /\ EmitEvents[2].render_ok
    /\ result.files = <<MdOf(1), TxtOf(1), MdOf(2), TxtOf(2), PdfOf(2)>>

\* C4: a manifest returned with success holds the markdown and the text
\* artifact of every selected task, and every artifact in it comes with the
\* markdown and the text artifact of the same output base name.
C4_MandatoryArtifacts ==
    result.success =>
        LET files == Range(result.files)
        IN  /\ \A t \in 1..Len(selected_tasks) :
                 LET base == BaseOf(t)
                 IN  /\ PathIn(base, "markdown", "md") \in files
                     /\ PathIn(base, "text", "txt") \in files
            /\ \A f \in files :
                 /\ [f EXCEPT !.sub = "markdown", !.ext = "md"] \in files
                 /\ [f EXCEPT !.sub = "text", !.ext = "txt"] \in files

C4_Witness ==
    /\ result.success
    /\ Len(selected_tasks) = 2
    /\ selected_tasks[1] # selected_tasks[2]
    /\ Len(result.files) = 6

\* C5: the running token total always equals the sum of the counts reported
\* by the calls issued so far (no usage data counts 0 and is no error), it
\* never decreases, and a successful run reports that sum over its
\* Len(selected_tasks) * (N+1) calls.
C5_TokenTotal ==
    /\ [](/\ total_tokens_used = SumUsage(trace)
          /\ result.success =>
               /\ result.total_tokens = SumUsage(trace)
               /\ Len(GenCalls) = Len(selected_tasks) * (Len(chunks) + 1))
    /\ [][total_tokens_used' >= total_tokens_used]_vars

C5_Witness ==
    /\ result.success
    /\ result.total_tokens >= 4
    /\ \E k \in DOMAIN trace :
         IsCall(trace[k]) /\ trace[k].ok /\ trace[k].response.usage = <<>>

\* C6: the failure handed to the caller after a failed generation call
\* carries the tokens already spent in the run.
C6_FailureCarriesSpentTokens ==
    (result.returned /\ FailedCallExists) => result.total_tokens = SumUsage(trace)

\* C7: once every task is emitted the run returns success with the token
\* total, the artifact list and the run folder, whether the sink is absent,
\* accepts the record, or raises while opening the sheet or appending a row.
C7_SinkNeverChangesOutcome ==
    (pc = "done" /\ trace[Len(trace)].kind = "log") =>
        /\ result.returned
        /\ result.success
        /\ result.total_tokens = total_tokens_used
        /\ result.files = generated_files
        /\ result.run_output_dir = run_output_dir
        /\ run_output_dir # <<>>

C7_Witness ==
    /\ pc = "done"
    /\ trace[Len(trace)].kind = "log"
    /\ trace[Len(trace)].client = "client"
    /\ ~trace[Len(trace)].opened
    /\ result.success
    /\ Len(result.files) >= 2
    /\ sheet = <<>>

Rank(kind) == CASE kind = "map" -> 1 [] kind = "synth" -> 2 [] kind = "emit" -> 3
                [] OTHER -> 0

\* the files from position p on are the groups of tasks t, t+1, ... in order,
\* each group being markdown, text and optionally the PDF of its task
RECURSIVE Grouped(_, _, _)
Grouped(files, p, t) ==
    IF t > Len(selected_tasks) THEN p = Len(files) + 1
    ELSE LET base == BaseOf(t)
         IN  /\ p + 1 <= Len(files)
             /\ files[p] = PathIn(base, "markdown", "md")
             /\ files[p + 1] = PathIn(base, "text", "txt")
             /\ IF p + 2 <= Len(files) /\ files[p + 2] = PathIn(base, "pdf", "pdf")
                THEN Grouped(files, p + 3, t + 1)
                ELSE Grouped(files, p + 2, t + 1)

\* event a comes before event b in the order task, then map calls by chunk,
\* then the synthesis call, then the emission
Before(a, b) ==
    \/ a.task < b.task
    \/ /\ a.task = b.task
       /\ \/ Rank(a.kind) < Rank(b.kind)
          \/ a.kind = "map" /\ b.kind = "map" /\ a.chunk < b.chunk

\* C8: tasks run one at a time in list order: consecutive events of the run
\* go forward in the order task, map calls by chunk, synthesis call, emission
\* (so all events are in that order); the first call of task t+1 comes right
\* after the finished emission of task t; and the returned manifest is
\* grouped by task in list order, markdown, text, then the PDF if rendered.
C8_TasksSequentialInOrder ==
    /\ \A k \in 1..(Len(trace) - 1) :
         LET a == trace[k]
             b == trace[k + 1]
         IN  /\ (Rank(a.kind) > 0 /\ Rank(b.kind) > 0) => Before(a, b)
             /\ (IsCall(b) /\ a.task # b.task) =>
                    IF b.task = 1 THEN a.kind = "start"
                    ELSE a.kind = "emit" /\ a.task = b.task - 1 /\ a.txt_ok
             /\ b.kind = "log" => a.kind \in {"start", "emit"}
    /\ result.success => Grouped(result.files, 1, 1)

C8_Witness ==
    /\ result.success
    /\ Len(selected_tasks) = 2
    /\ selected_tasks[1] # selected_tasks[2]
    /\ Len(chunks) = 2
    /\ result.files = <<MdOf(1), TxtOf(1), PdfOf(1), MdOf(2), TxtOf(2)>>

\* chunk[O:]
DropFirst(text, n) == SubSeq(text, n + 1, Len(text))

\* the first chunk followed by every later chunk without its first O characters
RECURSIVE StitchFrom(_, _, _)
StitchFrom(cs, k, O) ==
    IF k > Len(cs) THEN <<>>
    ELSE (IF k = 1 THEN cs[1] ELSE DropFirst(cs[k], O)) \o StitchFrom(cs, k + 1, O)
Stitch(cs, O) == StitchFrom(cs, 1, O)

AllWhitespace(text, from, to) == \A k \in from..to : IsWhitespace(text[k])

\* chunks k, k+1, ... can be laid over text in order, the first pos characters
\* being covered already: each is a substring that either starts in the
\* covered part, at most O characters before its end (never the first chunk),
\* or starts after a gap of whitespace; what is left at the end is whitespace
RECURSIVE Laid(_, _, _, _, _)
Laid(text, cs, k, pos, O) ==
    IF k > Len(cs) THEN AllWhitespace(text, pos + 1, Len(text))
    ELSE \E s \in 1..(Len(text) - Len(cs[k]) + 1) :
            /\ SubSeq(text, s, s + Len(cs[k]) - 1) = cs[k]
            /\ IF s <= pos
               THEN k > 1 /\ pos - s + 1 <= O
               ELSE AllWhitespace(text, pos + 1, s - 1)
            /\ Laid(text, cs, k + 1, Max({pos, s + Len(cs[k]) - 1}), O)

C10_DistinctRunFolders ==
    /\ \A s1, s2 \in Sessions :
         (s1 # s2 /\ sessions[s1].pc # "idle" /\ sessions[s2].pc # "idle") =>
            sessions[s1].run_output_dir # sessions[s2].run_output_dir
    /\ \A w1, w2 \in fs_writers : w1[1] = w2[1] => w1[2] = w2[2]

\* the events of the run that call the generation service, write an artifact
\* or call the activity log
\* C11: every generation call is attempted once (no two calls for the same
\* task, phase and chunk), and once a generation call has failed the run
\* performs no further generation call, artifact write or activity-log
\* write: the failed call stays the last event, the files on disk and the
\* sheet stay as they are, the rest of the task and all later tasks are skipped.
C11_NoRetryNothingAfterFailure ==
    /\ [](\A a, b \in DOMAIN trace :
            (a < b /\ IsCall(trace[a]) /\ IsCall(trace[b])) =>
                <<trace[a].task, trace[a].kind, trace[a].chunk>>
                    # <<trace[b].task, trace[b].kind, trace[b].chunk>>)
    /\ [](FailedCallExists =>
            /\ ~trace[Len(trace)].ok
            /\ \A k \in 1..(Len(trace) - 1) : IsCall(trace[k]) => trace[k].ok
            /\ sheet = <<>>)
    /\ [][FailedCallExists => UNCHANGED <<trace, disk, sheet, generated_files>>]_vars

C11_Witness ==
    /\ pc = "done"
    /\ FailedCallExists
    /\ Len(selected_tasks) = 2
    /\ Len(chunks) = 2
    /\ Len(GenCalls) = 1
    /\ disk = <<>>

LogEvents == SelectSeq(trace, LAMBDA e : e.kind = "log")

\* C12: the activity log is called at most once in a run, and only as the
\* last step, after every selected task had its synthesis call answered and
\* its artifacts emitted; a run that fails never calls it and leaves the
\* sheet untouched; the token total of the row it appends is the token total
\* returned to the caller.
C12_LogOnceAfterAllTasks ==
    /\ Len(LogEvents) <= 1
    /\ \A k \in DOMAIN trace :
         trace[k].kind = "log" =>
            LET emits == EmitEvents
            IN  /\ k = Len(trace)
                /\ ~FailedCallExists
                /\ Len(emits) = Len(selected_tasks)
                /\ \A t \in 1..Len(emits) : emits[t].task = t /\ emits[t].txt_ok
                /\ \A t \in 1..Len(selected_tasks) :
                     LET calls == CallsOf(t)
                     IN  calls # <<>> /\ calls[Len(calls)].kind = "synth"
                /\ result.success
    /\ (result.returned /\ ~result.success) => (LogEvents = <<>> /\ sheet = <<>>)
    /\ Len(sheet) \in {0, 2}
    /\ Len(sheet) = 2 =>
         /\ result.success
         /\ sheet[2].total_tokens = result.total_tokens
         /\ sheet[2].total_tokens = SumUsage(trace)

C12_Witness ==
    /\ result.success
    /\ Len(selected_tasks) = 2
    /\ Len(sheet) = 2
    /\ sheet[2].total_tokens >= 2
    /\ Len(LogEvents) = 1

\* the texts returned by the answered map calls of task t, in call order
MapTextsOf(t) ==
    LET maps == SelectSeq(trace, LAMBDA e : e.kind = "map" /\ e.task = t /\ e.ok)
    IN  [k \in 1..Len(maps) |-> maps[k].response.text]

\* C13: every synthesis prompt is the one master prompt, the instruction of
\* its own task and the concatenation of the map results of that task only;
\* intermediate_results holds exactly the map results of the current task, so
\* it is empty when a task starts and never carries a result of an earlier task.
C13_SynthesisFromOwnResults ==
    /\ \A k \in DOMAIN trace :
         trace[k].kind = "synth" =>
            /\ trace[k].prompt.framing = master_prompt
            /\ trace[k].prompt.request = selected_tasks[trace[k].task].prompt
            /\ trace[k].prompt.body = Join(MapTextsOf(trace[k].task), <<>>)
    /\ pc \in {"map", "synth"} =>
         /\ intermediate_results = MapTextsOf(i)
         /\ (pc = "map" /\ j = 1) => intermediate_results = <<>>

C13_Witness ==
    /\ result.success
    /\ Len(selected_tasks) = 2
    /\ Len(chunks) = 2
    /\ MapTextsOf(1) = << <<"y">>, <<"y">> >>
    /\ MapTextsOf(2) = << <<"x">>, <<"x">> >>
    /\ CallsOf(2)[3].prompt.body = <<"x", "x">>
    /\ CallsOf(2)[3].prompt.request # CallsOf(1)[3].prompt.request

\* C14: in a run whose task names are pairwise distinct, the artifact paths of
\* different tasks are pairwise distinct and no artifact path is written twice,
\* so no task's artifact overwrites another task's artifact.
C14_DistinctArtifactPaths ==
    (\A a, b \in DOMAIN selected_tasks :
        a # b => selected_tasks[a].task_name # selected_tasks[b].task_name)
    => /\ \A a, b \in DOMAIN selected_tasks :
            (a < b /\ Len(EmitEvents) >= b /\ EmitEvents[b].txt_ok)
                => (MdOf(a) # MdOf(b) /\ TxtOf(a) # TxtOf(b))
       /\ \A p, q \in DOMAIN disk : p # q => disk[p] # disk[q]

\* C15: analysis_complete is true only when the most recently started run has
\* returned success, and then the stored generated_files, run_output_dir and
\* total_tokens are the values that run returned; the flag is already false
\* while the pipeline of a newly started run executes, so after a failed run
\* the download section offers nothing of an earlier successful run.
C15_SessionStateMatchesLastRun ==
    /\ session_state.analysis_complete =>
         /\ pc = "idle"
         /\ result.returned /\ result.success
         /\ session_state.generated_files = result.files
         /\ session_state.run_output_dir = result.run_output_dir
         /\ session_state.total_tokens = result.total_tokens
    /\ pc \in {"start", "map", "synth", "emit", "log", "done"} =>
         ~session_state.analysis_complete
    /\ (result.returned /\ ~result.success) => Offered(session_state) = <<>>
    /\ (pc = "idle" /\ result.returned /\ result.success) =>
         Offered(session_state) = result.files

C15_Witness ==
    /\ pc = "idle"
    /\ runs = 2
    /\ result.returned /\ ~result.success
    /\ session_state.generated_files # <<>>
    /\ session_state.total_tokens >= 2
    /\ ~session_state.analysis_complete

\* C16: when every generation call eventually returns or fails, the run
\* eventually finishes, with a success result or a failure result, and stays
\* finished; at no point has it issued more than
\* Len(selected_tasks) * (Len(chunks) + 1) generation calls.
C16_RunTerminates ==
    /\ <>[](pc = "done" /\ result.returned)
    /\ [](Len(GenCalls) <= Len(selected_tasks) * (Len(chunks) + 1))

C16_Witness ==
    /\ pc = "done"
    /\ result.returned /\ result.success
    /\ Len(selected_tasks) = 2
    /\ Len(chunks) = 2
    /\ Len(GenCalls) = Len(selected_tasks) * (Len(chunks) + 1)

====
